---- MODULE Spec2Model ----
(***************************************************************************)
(* A model of image_to_gb_tiles.py: one run of main() converting an image  *)
(* file into a Game Boy tile-set binary and an index binary.               *)
(*                                                                         *)
(* Python lists and tuples are TLA+ sequences, so position k of a Python   *)
(* list is element k+1 of the sequence that models it.  The values held in *)
(* the lists (pixel values, palette values, bytes, tile indices) are the   *)
(* program's own numbers: an index stored in `indices` is 0-based.         *)
(***************************************************************************)
EXTENDS Integers, Sequences, FiniteSets

VARIABLES
    source,          \* the file at args.image: [status, image]
    palette,         \* args.palette
    thresholds,      \* args.thresholds
    pc,              \* the statement of main() / convert_grayscale_to_tile_set() to run next
    image,           \* the image returned by load_image_as_grayscale
    palette_values,  \* convert_grayscale_to_tile_set's local: rows of quantized pixels
    encoded,         \* convert_grayscale_to_tile_set's local tile_set: one bytes object per tile
    tile_set,        \* main's tile_set: the reduced set
    indices,         \* main's indices
    warned,          \* the VRAM warning was printed to stderr
    reported,        \* the error main() caught and printed: "none", "ImageError", "IOError"
    raised,          \* the exception that left main() uncaught: "none" or its class name
    exit_code,       \* the process's exit status once pc = "done"
    out_file,        \* the file at args.output: [created, data]
    idx_file         \* the file at args.indices: [created, data]

vars == <<source, palette, thresholds, pc, image, palette_values, encoded,
          tile_set, indices, warned, reported, raised, exit_code, out_file, idx_file>>

----------------------------------------------------------------------------
(* Bounds of the model *)

\* Images are at most this many tiles wide / high in Spec.
MaxTilesWide == 2
MaxTilesHigh == 2
\* Every iteration order of a set is enumerated up to this many elements.
MaxEnumerated == 4
\* The size in tiles of the images of SpecLarge.
LargeTilesWide == 17
LargeTilesHigh == 16

(* Program constants *)

TILE == 8
BYTE_RANGE == 256
MAX_GB_TILES == 255
DEFAULT_PALETTE == <<0, 1, 2, 3>>
DEFAULT_THRESHOLDS == <<63, 127, 191>>

----------------------------------------------------------------------------
(* Helpers *)

Range(s) == {s[k] : k \in 1..Len(s)}

NoImage == [size |-> <<0, 0>>, mode |-> "none", pixels |-> << >>]

NoFile == [created |-> FALSE, data |-> << >>]

----------------------------------------------------------------------------
(* load_image_as_grayscale: Image.convert("L") of an RGB pixel, the ITU-R   *)
(* 601-2 luma transform in the library's fixed-point form.                  *)

ConvertL(px) ==
    (px[1] * 19595 + px[2] * 38470 + px[3] * 7471 + 32768) \div 65536

load_image_as_grayscale(file) ==
    IF file.image.mode # "L"
    THEN [file.image EXCEPT !.mode = "L",
                            !.pixels = [xy \in DOMAIN file.image.pixels |->
                                           ConvertL(file.image.pixels[xy])]]
    ELSE file.image

----------------------------------------------------------------------------
(* grayscale_to_palette *)

grayscale_to_palette_three_buckets(value, pal, thr) ==
    LET low == thr[1]  mid == thr[2]
    IN  IF value <= low THEN pal[1]
        ELSE IF value <= mid THEN pal[2]
        ELSE pal[3]

grayscale_to_palette_swapped(value, pal, thr) ==
    LET low == thr[1]  mid == thr[2]  high == thr[3]
    IN  IF value <= low THEN pal[1]
        ELSE IF value <= mid THEN pal[3]
        ELSE IF value <= high THEN pal[2]
        ELSE pal[4]

grayscale_to_palette(value, pal, thr) ==
    LET low == thr[1]  mid == thr[2]  high == thr[3]
    IN  IF value <= low THEN pal[1]
        ELSE IF value <= mid THEN pal[2]
        ELSE IF value <= high THEN pal[3]
        ELSE pal[4]

\* lines 121-127: palette_values[j][i] = grayscale_to_palette(pixels[i, j], ...)
quantize(img, pal, thr) ==
    LET width == img.size[1]  height == img.size[2]
    IN  [j \in 1..height |->
            [i \in 1..width |->
                grayscale_to_palette(img.pixels[<<i - 1, j - 1>>], pal, thr)]]

----------------------------------------------------------------------------
(* grid_8x8_segments: the generator's loops, j over range(0, height, 8) and *)
(* inside it i over range(0, width, 8), one segment yielded per (j, i).     *)

segment(grid, j, i) ==
    [y \in 1..TILE |-> [x \in 1..TILE |-> grid[j + y][i + x]]]

\* line 177: the inner loop, for i in range(0, width, 8), from i on
RECURSIVE inner_loop_from(_, _, _, _)
inner_loop_from(grid, width, j, i) ==
    IF i >= width THEN << >>
    ELSE <<segment(grid, j, i)>> \o inner_loop_from(grid, width, j, i + TILE)

\* line 176: the outer loop, for j in range(0, height, 8), from j on
RECURSIVE outer_loop_from(_, _, _, _)
outer_loop_from(grid, height, width, j) ==
    IF j >= height THEN << >>
    ELSE inner_loop_from(grid, width, j, 0) \o outer_loop_from(grid, height, width, j + TILE)

\* The loops exchanged: for i in range(0, width, 8): for j in range(0, height, 8)
RECURSIVE inner_loop_over_j(_, _, _, _)
inner_loop_over_j(grid, height, j, i) ==
    IF j >= height THEN << >>
    ELSE <<segment(grid, j, i)>> \o inner_loop_over_j(grid, height, j + TILE, i)

RECURSIVE outer_loop_over_i(_, _, _, _)
outer_loop_over_i(grid, height, width, i) ==
    IF i >= width THEN << >>
    ELSE inner_loop_over_j(grid, height, 0, i) \o outer_loop_over_i(grid, height, width, i + TILE)

grid_8x8_segments_column_major(grid) ==
    outer_loop_over_i(grid, Len(grid), IF Len(grid) = 0 THEN 0 ELSE Len(grid[1]), 0)

\* The segments yielded once both assertions have passed or been compiled out
\* (width = 0 then yields nothing; height = 0 never gets here, see EncodeTiles).
grid_8x8_segments(grid) ==
    outer_loop_from(grid, Len(grid), IF Len(grid) = 0 THEN 0 ELSE Len(grid[1]), 0)

----------------------------------------------------------------------------
(* The tile encoder, lines 132-145 *)

\* lines 135-140: the loop over the values of one row, from position k on
RECURSIVE pack_row_lsb_first(_, _, _, _)
pack_row_lsb_first(row, k, row_byte1, row_byte2) ==
    IF k < 1 THEN <<row_byte1, row_byte2>>
    ELSE pack_row_lsb_first(row, k - 1,
                            row_byte1 * 2 + (row[k] % 2),
                            row_byte2 * 2 + ((row[k] \div 2) % 2))

RECURSIVE pack_row_from(_, _, _, _)
pack_row_from(row, k, row_byte1, row_byte2) ==
    IF k > Len(row) THEN <<row_byte1, row_byte2>>
    ELSE pack_row_from(row, k + 1,
                       row_byte1 * 2 + (row[k] % 2),
                       row_byte2 * 2 + ((row[k] \div 2) % 2))

pack_row_reversed(row) == pack_row_lsb_first(row, Len(row), 0, 0)

pack_row_low_plane_twice(row) ==
    LET b == pack_row_from(row, 1, 0, 0) IN <<b[1], b[1]>>

pack_row(row) == pack_row_from(row, 1, 0, 0)

\* lines 132-145: tile_bytes of one tile, row pairs appended top to bottom
RECURSIVE tile_bytes_from(_, _)
tile_bytes_from(tile, r) ==
    IF r > Len(tile) THEN << >>
    ELSE pack_row(tile[r]) \o tile_bytes_from(tile, r + 1)

encode_tile(tile) == tile_bytes_from(tile, 1)

\* lines 129-145: the loop over the generator
encode_tiles(grid) ==
    LET segs == grid_8x8_segments(grid)
    IN  [n \in 1..Len(segs) |-> encode_tile(segs[n])]

----------------------------------------------------------------------------
(* reduce_tile_set, lines 184-188 *)

\* The distinct elements of a list, in order of first occurrence.
first_occurrences(s) ==
    LET IsFirst(k) == \A m \in 1..(k - 1) : s[m] # s[k]
        firsts == SelectSeq([k \in 1..Len(s) |-> k], IsFirst)
    IN  [n \in 1..Len(firsts) |-> s[firsts[n]]]

Perms(n) == {p \in [1..n -> 1..n] : \A a, b \in 1..n : a # b => p[a] # p[b]}

Rotate(s, k) == [n \in 1..Len(s) |-> s[((n - 1 + k) % Len(s)) + 1]]

Reverse(s) == [n \in 1..Len(s) |-> s[Len(s) + 1 - n]]

list_of_set_keeping_repeats(tiles) == {tiles}

\* line 185: list(set(tile_set)).  A set's iteration order is unspecified (it
\* follows the hashes of the bytes objects, which are salted per process):
\* every order is possible.  All of them are enumerated for up to MaxEnumerated
\* distinct tiles; for larger sets the first-occurrence order, its rotation by
\* one and its reversal stand for them.
list_of_set(tiles) ==
    LET base == first_occurrences(tiles)
        n == Len(base)
    IN  IF n <= MaxEnumerated
        THEN {[k \in 1..n |-> base[p[k]]] : p \in Perms(n)}
        ELSE {base, Rotate(base, 1), Reverse(base)}

index_lookup_one_based(reduced_set, tile) ==
    CHOOSE k \in 1..Len(reduced_set) :
        /\ reduced_set[k] = tile
        /\ \A m \in (k + 1)..Len(reduced_set) : reduced_set[m] # tile

\* line 186: {tile: i for i, tile in enumerate(reduced_set)}[tile]; a later
\* entry of the comprehension replaces an earlier one with the same key.
index_lookup(reduced_set, tile) ==
    (CHOOSE k \in 1..Len(reduced_set) :
        /\ reduced_set[k] = tile
        /\ \A m \in (k + 1)..Len(reduced_set) : reduced_set[m] # tile) - 1

\* line 187
indices_of(reduced_set, tiles) ==
    [n \in 1..Len(tiles) |-> index_lookup(reduced_set, tiles[n])]

----------------------------------------------------------------------------
(* write_tile_set_to_file / write_indices_to_file *)

\* The concatenation of tiles[lo..hi].
RECURSIVE concat(_, _, _)
concat(tiles, lo, hi) ==
    IF lo > hi THEN << >>
    ELSE IF lo = hi THEN tiles[lo]
    ELSE LET mid == (lo + hi) \div 2
         IN  concat(tiles, lo, mid) \o concat(tiles, mid + 1, hi)

\* The bytes in the file after the first k tiles were written (lines 193-194).
written_tiles(tiles, k) == concat(tiles, 1, k)

\* line 199: bytes(indices) raises ValueError unless every int is in range(0, 256)
bytes_accepts(ints) == \A k \in 1..Len(ints) : ints[k] \in 0..(BYTE_RANGE - 1)

----------------------------------------------------------------------------
(* The inputs of a run: the image file, the palette and the thresholds.     *)
(* An image's pixels are generated from a pattern so that a small set of   *)
(* patterns gives uniform images, repeated tiles and all-distinct tiles.    *)

Ramp(mode, sx, sy, off) ==
    [kind |-> "ramp", mode |-> mode, sx |-> sx, sy |-> sy, off |-> off]

\* Tile t (in raster order) of a counter image holds the base-4 digits of
\* t % distinct in its top row: the image has that many distinct tiles.
Counter(wide, distinct) ==
    [kind |-> "counter", mode |-> "L", wide |-> wide, distinct |-> distinct]

gray_at(p, x, y) ==
    IF p.kind = "ramp"
    THEN (p.sx * x + p.sy * y + p.off) % 256
    ELSE LET t == ((y \div TILE) * p.wide + (x \div TILE)) % p.distinct
         IN  IF y % TILE = 0 /\ x % TILE < 5
             THEN 64 * ((t \div (4 ^ (x % TILE))) % 4) + 32
             ELSE 0

pixel_at(p, x, y) ==
    LET g == gray_at(p, x, y)
    IN  IF p.mode = "L" THEN g ELSE <<g, g, 255 - g>>

MkImage(size, p) ==
    [size |-> size, mode |-> p.mode,
     pixels |-> [xy \in (0..(size[1] - 1)) \X (0..(size[2] - 1)) |->
                    pixel_at(p, xy[1], xy[2])]]

ImageFile(size, p) == [status |-> "ok", image |-> MkImage(size, p)]

Input(file, pal, thr) == [source |-> file, palette |-> pal, thresholds |-> thr]

\* Files that cannot be opened, and images whose size is zero or no multiple of 8.
BadSizes == {<<0, 8>>, <<8, 0>>, <<0, 0>>, <<0, 12>>, <<10, 16>>, <<16, 12>>, <<3, 8>>}

EdgeInputs ==
    {Input([status |-> st, image |-> NoImage], DEFAULT_PALETTE, DEFAULT_THRESHOLDS) :
        st \in {"missing", "invalid"}}
    \cup {Input(ImageFile(sz, Ramp("L", 16, 4, 0)), DEFAULT_PALETTE, DEFAULT_THRESHOLDS) :
            sz \in BadSizes}

GoodSizes ==
    {<<TILE * a, TILE * b>> : a \in 1..MaxTilesWide, b \in 1..MaxTilesHigh}

Patterns ==
    {Ramp("L", 0, 0, 255), Ramp("L", 0, 0, 100), Ramp("L", 32, 8, 0), Ramp("L", 16, 0, 0),
     Ramp("L", 0, 16, 0), Ramp("L", 16, 4, 0), Ramp("RGB", 16, 4, 0)}

Palettes == {DEFAULT_PALETTE, <<3, 2, 1, 0>>, <<0, 1, 2, 5>>}

ThresholdSets == {DEFAULT_THRESHOLDS, <<191, 127, 63>>, <<0, 100, 254>>}

Inputs ==
    EdgeInputs
    \cup {Input(ImageFile(sz, p), pal, thr) :
            sz \in GoodSizes, p \in Patterns, pal \in Palettes, thr \in ThresholdSets}

\* Inputs for the quantizer: one-tile images that between them hold the gray
\* values 0, 3, 4, 7, ... 252, 255, many palettes, thresholds in any order.
QuantizerInputs ==
    EdgeInputs
    \cup {Input(ImageFile(<<TILE, TILE>>, Ramp("L", 4, 32, off)), pal, thr) :
            off \in {0, 3},
            pal \in [1..4 -> {0, 3}] \cup Palettes \cup {<<1, 1, 2, 2>>},
            thr \in [1..3 -> {0, 63, 127, 254}] \cup ThresholdSets}

\* Inputs around the number of unique tiles the index byte can address:
\* images of LargeTilesWide x LargeTilesHigh tiles with 255 to 257 distinct ones.
UniqueTileCounts == MAX_GB_TILES..(MAX_GB_TILES + 2)

LargeInputs ==
    EdgeInputs
    \cup {Input(ImageFile(<<TILE * LargeTilesWide, TILE * LargeTilesHigh>>,
                          Counter(LargeTilesWide, n)),
                DEFAULT_PALETTE, DEFAULT_THRESHOLDS) :
            n \in UniqueTileCounts}

InitFrom(inputs) ==
    /\ \E inp \in inputs :
        /\ source = inp.source
        /\ palette = inp.palette
        /\ thresholds = inp.thresholds
    /\ pc = "load"
    /\ image = NoImage
    /\ palette_values = << >>
    /\ encoded = << >>
    /\ tile_set = << >>
    /\ indices = << >>
    /\ warned = FALSE
    /\ reported = "none"
    /\ raised = "none"
    /\ exit_code = 0
    /\ out_file = NoFile
    /\ idx_file = NoFile

Init == InitFrom(Inputs)

InitQuantizer == InitFrom(QuantizerInputs)

InitLarge == InitFrom(LargeInputs)

----------------------------------------------------------------------------
(* The steps of main() *)

\* main lines 34-36: except ImageError: print(err); sys.exit(1)
ExitWithImageError ==
    /\ reported' = "ImageError"
    /\ exit_code' = 1
    /\ pc' = "done"
    /\ UNCHANGED raised

\* An exception main() does not catch: traceback, exit status 1
ExitUncaught(exc) ==
    /\ raised' = exc
    /\ exit_code' = 1
    /\ pc' = "done"

\* main lines 50-51: except IOError: print(...); main returns
ReturnAfterIOError ==
    /\ reported' = "IOError"
    /\ exit_code' = 0
    /\ pc' = "done"
    /\ UNCHANGED raised

\* line 30, load_image_as_grayscale (lines 94-105)
LoadImage ==
    /\ pc = "load"
    /\ IF source.status = "ok"
       THEN /\ image' = load_image_as_grayscale(source)
            /\ pc' = "check_size"
            /\ UNCHANGED <<reported, raised, exit_code>>
       ELSE /\ ExitWithImageError
            /\ UNCHANGED image
    /\ UNCHANGED <<source, palette, thresholds, palette_values, encoded, tile_set,
                   indices, warned, out_file, idx_file>>

\* line 115: if width % 8 or height % 8
size_rejected(size) == size[1] % TILE # 0 \/ size[2] % TILE # 0

\* convert_grayscale_to_tile_set lines 111-118
CheckSize ==
    /\ pc = "check_size"
    /\ IF size_rejected(image.size)
       THEN ExitWithImageError
       ELSE /\ pc' = "quantize"
            /\ UNCHANGED <<reported, raised, exit_code>>
    /\ UNCHANGED <<source, palette, thresholds, image, palette_values, encoded, tile_set,
                   indices, warned, out_file, idx_file>>

\* convert_grayscale_to_tile_set lines 120-127
Quantize ==
    /\ pc = "quantize"
    /\ palette_values' = quantize(image, palette, thresholds)
    /\ pc' = "encode"
    /\ UNCHANGED <<source, palette, thresholds, image, encoded, tile_set, indices,
                   warned, reported, raised, exit_code, out_file, idx_file>>

\* convert_grayscale_to_tile_set lines 129-145 with the generator's assertions
\* (lines 168-174), which run when the loop asks for the first segment.  An
\* assertion that fails raises AssertionError, which main() does not catch;
\* under python -O the assertions are compiled out, and then an empty grid
\* raises IndexError at grid[0], a grid of empty rows yields no segment, and a
\* grid whose size is no multiple of 8 raises IndexError in its last segment.
EncodeTiles ==
    /\ pc = "encode"
    /\ LET height == Len(palette_values)
           width == Len(palette_values[1])
       IN  IF ~(height > 0 /\ height % TILE = 0)
           THEN /\ \/ ExitUncaught("AssertionError")
                   \/ ExitUncaught("IndexError")
                /\ UNCHANGED <<encoded, reported>>
           ELSE IF ~(width > 0 /\ width % TILE = 0)
           THEN \/ /\ ExitUncaught("AssertionError")
                   /\ UNCHANGED <<encoded, reported>>
                \/ IF width = 0
                   THEN /\ encoded' = encode_tiles(palette_values)
                        /\ pc' = "reduce"
                        /\ UNCHANGED <<reported, raised, exit_code>>
                   ELSE /\ ExitUncaught("IndexError")
                        /\ UNCHANGED <<encoded, reported>>
           ELSE /\ encoded' = encode_tiles(palette_values)
                /\ pc' = "reduce"
                /\ UNCHANGED <<reported, raised, exit_code>>
    /\ UNCHANGED <<source, palette, thresholds, image, palette_values, tile_set, indices,
                   warned, out_file, idx_file>>

\* line 147 and reduce_tile_set (lines 184-188), returned to main line 31
ReduceTileSet ==
    /\ pc = "reduce"
    /\ \E reduced_set \in list_of_set(encoded) :
        /\ tile_set' = reduced_set
        /\ indices' = indices_of(reduced_set, encoded)
    /\ pc' = "report"
    /\ UNCHANGED <<source, palette, thresholds, image, palette_values, encoded, warned,
                   reported, raised, exit_code, out_file, idx_file>>

\* main lines 38-45
ReportCount ==
    /\ pc = "report"
    /\ warned' = (Len(tile_set) > MAX_GB_TILES)
    /\ pc' = "write_tiles"
    /\ UNCHANGED <<source, palette, thresholds, image, palette_values, encoded, tile_set,
                   indices, reported, raised, exit_code, out_file, idx_file>>

\* main line 48, write_tile_set_to_file (lines 191-194): open() may fail, and
\* so may the write of any tile, leaving the tiles before it in the file.
WriteTileSet ==
    /\ pc = "write_tiles"
    /\ \/ /\ ReturnAfterIOError
          /\ UNCHANGED out_file
       \/ \E k \in 0..(Len(tile_set) - 1) :
            /\ out_file' = [created |-> TRUE, data |-> written_tiles(tile_set, k)]
            /\ ReturnAfterIOError
       \/ /\ out_file' = [created |-> TRUE, data |-> written_tiles(tile_set, Len(tile_set))]
          /\ pc' = "write_indices"
          /\ UNCHANGED <<reported, raised, exit_code>>
    /\ UNCHANGED <<source, palette, thresholds, image, palette_values, encoded, tile_set,
                   indices, warned, idx_file>>

\* main lines 49-54, write_indices_to_file (lines 197-199): open() creates the
\* file, then bytes(indices) is evaluated, then written.  ValueError is no
\* IOError: main() does not catch it.
WriteIndices ==
    /\ pc = "write_indices"
    /\ \/ /\ ReturnAfterIOError
          /\ UNCHANGED idx_file
       \/ /\ idx_file' = [created |-> TRUE, data |-> << >>]
          /\ IF bytes_accepts(indices)
             THEN ReturnAfterIOError
             ELSE /\ ExitUncaught("ValueError")
                  /\ UNCHANGED reported
       \/ /\ bytes_accepts(indices)
          /\ idx_file' = [created |-> TRUE, data |-> indices]
          /\ exit_code' = 0
          /\ pc' = "done"
          /\ UNCHANGED <<reported, raised>>
    /\ UNCHANGED <<source, palette, thresholds, image, palette_values, encoded, tile_set,
                   indices, warned, out_file>>

Next ==
    \/ LoadImage
    \/ CheckSize
    \/ Quantize
    \/ EncodeTiles
    \/ ReduceTileSet
    \/ ReportCount
    \/ WriteTileSet
    \/ WriteIndices

Spec == Init /\ [][Next]_vars

SpecQuantizer == InitQuantizer /\ [][Next]_vars

SpecLarge == InitLarge /\ [][Next]_vars

----------------------------------------------------------------------------
(* How far the run has come *)

\* reduce_tile_set has returned to main()
HasReduced ==
    \/ pc \in {"report", "write_tiles", "write_indices"}
    \/ pc = "done" /\ reported # "ImageError" /\ raised \notin {"AssertionError", "IndexError"}

\* the encoding loop of convert_grayscale_to_tile_set has finished
HasEncoded == pc = "reduce" \/ HasReduced

\* bit k of a byte, counted from the most significant bit (k = 0) down
BitFromMsb(byte, k) == (byte \div (2 ^ (7 - k))) % 2

IsTwoBitTile(tile) == \A r \in 1..TILE, c \in 1..TILE : tile[r][c] \in 0..3

\* the inverse of the bit-plane packing
DecodeTile(bytes) ==
    [r \in 1..TILE |->
        [c \in 1..TILE |->
            2 * BitFromMsb(bytes[2 * r], c - 1) + BitFromMsb(bytes[2 * r - 1], c - 1)]]

Ascending(thr) == thr[1] <= thr[2] /\ thr[2] <= thr[3]

NonDecreasing(pal) == pal[1] <= pal[2] /\ pal[2] <= pal[3] /\ pal[3] <= pal[4]

PositiveMultiplesOf8(size) ==
    /\ size[1] > 0 /\ size[1] % 8 = 0
    /\ size[2] > 0 /\ size[2] % 8 = 0

----------------------------------------------------------------------------
(* C1: once reduce_tile_set has returned, indices has one entry per input   *)
(* tile and tile_set[indices[i]] is the input tile at position i.           *)
C1_DedupRoundTrip ==
    HasReduced =>
        /\ Len(indices) = Len(encoded)
        /\ \A i \in 1..Len(encoded) :
            /\ indices[i] \in 0..(Len(tile_set) - 1)
            /\ tile_set[indices[i] + 1] = encoded[i]

\* a sequence with repeats and several distinct tiles, returned in another
\* order than that of first occurrence
C1_Witness ==
    /\ HasReduced
    /\ Len(encoded) >= 3
    /\ Len(tile_set) >= 2
    /\ Len(tile_set) < Len(encoded)
    /\ tile_set[1] # encoded[1]

(* C2: the reduced tile_set holds each distinct input tile exactly once,    *)
(* every index is in 0..|tile_set|-1, and two identical tiles give a        *)
(* tile_set of size 1 with indices [0, 0].                                  *)
C2_UniqueTiles ==
    HasReduced =>
        /\ \A a, b \in 1..Len(tile_set) : a # b => tile_set[a] # tile_set[b]
        /\ Range(tile_set) = Range(encoded)
        /\ Len(tile_set) = Cardinality(Range(encoded))
        /\ \A i \in 1..Len(indices) : indices[i] \in 0..(Len(tile_set) - 1)
        /\ (Len(encoded) = 2 /\ encoded[1] = encoded[2]) =>
                (Len(tile_set) = 1 /\ indices = <<0, 0>>)

\* a 16x8 image of two identical tiles that are not uniform
C2_Witness ==
    /\ HasReduced
    /\ Len(encoded) = 2
    /\ encoded[1] = encoded[2]
    /\ encoded[1][1] \notin {0, 255}
    /\ Len(tile_set) = 1

(* C3: a tile of values 0..3 is encoded as 16 bytes; byte 2r is the plane-1 *)
(* byte of row r and byte 2r+1 its plane-2 byte; bit k from the MSB of the  *)
(* plane-1 byte is bit 0 of the pixel in column k, and of the plane-2 byte  *)
(* bit 1 of it.  A uniform tile of value 1 gives 0xFF, 0x00 in every row.   *)
C3_BitPlanes ==
    HasEncoded =>
        LET segs == grid_8x8_segments(palette_values)
        IN  \A n \in 1..Len(encoded) :
                IsTwoBitTile(segs[n]) =>
                    /\ Len(encoded[n]) = 16
                    /\ \A r \in 0..7 :
                        /\ encoded[n][2 * r + 1] \in 0..255
                        /\ encoded[n][2 * r + 2] \in 0..255
                        /\ \A k \in 0..7 :
                            /\ BitFromMsb(encoded[n][2 * r + 1], k)
                                 = segs[n][r + 1][k + 1] % 2
                            /\ BitFromMsb(encoded[n][2 * r + 2], k)
                                 = (segs[n][r + 1][k + 1] \div 2) % 2
                    /\ (\A r \in 1..8, c \in 1..8 : segs[n][r][c] = 1) =>
                            \A r \in 0..7 : /\ encoded[n][2 * r + 1] = 255
                                            /\ encoded[n][2 * r + 2] = 0

\* a tile whose top row is 0,0,1,1,2,2,3,3: planes 00110011 and 00001111
C3_Witness ==
    /\ HasEncoded
    /\ \E n \in 1..Len(encoded) :
        /\ grid_8x8_segments(palette_values)[n][1] = <<0, 0, 1, 1, 2, 2, 3, 3>>
        /\ encoded[n][1] = 51
        /\ encoded[n][2] = 15

(* C4: decoding the 16 bytes of a tile of values 0..3 with the inverse of   *)
(* the bit-plane packing gives the tile back; two such tiles with the same  *)
(* bytes are the same tile.                                                 *)
C4_EncodeDecode ==
    HasEncoded =>
        LET segs == grid_8x8_segments(palette_values)
        IN  /\ \A n \in 1..Len(encoded) :
                IsTwoBitTile(segs[n]) => DecodeTile(encoded[n]) = segs[n]
            /\ \A n, m \in 1..Len(encoded) :
                (IsTwoBitTile(segs[n]) /\ IsTwoBitTile(segs[m]) /\ encoded[n] = encoded[m])
                    => segs[n] = segs[m]

\* a tile in which all four values occur, and a second, different tile
C4_Witness ==
    /\ HasEncoded
    /\ LET segs == grid_8x8_segments(palette_values)
       IN  \E n, m \in 1..Len(encoded) :
            /\ IsTwoBitTile(segs[n])
            /\ IsTwoBitTile(segs[m])
            /\ {segs[n][r][c] : r \in 1..8, c \in 1..8} = 0..3
            /\ segs[n] # segs[m]
            /\ DecodeTile(encoded[n]) = segs[n]

\* the run of scenario A: a 16x8 image of gray value 255, default palette and thresholds
AllWhiteRun ==
    /\ source.status = "ok"
    /\ source.image.mode = "L"
    /\ source.image.size = <<16, 8>>
    /\ \A xy \in DOMAIN source.image.pixels : source.image.pixels[xy] = 255
    /\ palette = DEFAULT_PALETTE
    /\ thresholds = DEFAULT_THRESHOLDS

(* C5 as stated: the all-white 16x8 image with the default palette and      *)
(* thresholds gives 2 tiles with, in every row, plane-1 byte 0x00 and       *)
(* plane-2 byte 0xFF.                                                       *)
C5_AllWhite_AsStated ==
    (AllWhiteRun /\ HasEncoded) =>
        /\ Len(encoded) = 2
        /\ \A n \in 1..Len(encoded) : \A r \in 0..7 :
            /\ encoded[n][2 * r + 1] = 0
            /\ encoded[n][2 * r + 2] = 255

(* C5 amended: the all-white 16x8 image with the default palette and        *)
(* thresholds gives 2 tiles with, in every row, plane-1 byte 0xFF and       *)
(* plane-2 byte 0xFF (value 255 -> palette value 3 -> bits (1,1)).          *)
C5_AllWhite ==
    (AllWhiteRun /\ HasEncoded) =>
        /\ Len(encoded) = 2
        /\ \A n \in 1..Len(encoded) :
            /\ Len(encoded[n]) = 16
            /\ \A r \in 0..7 :
                /\ encoded[n][2 * r + 1] = 255
                /\ encoded[n][2 * r + 2] = 255

C5_Witness == AllWhiteRun /\ HasEncoded /\ Len(encoded) = 2

\* the quantized value and the gray value of the pixel at (x, y)
QuantizedAt(x, y) == palette_values[y + 1][x + 1]

QuantizerMonotoneOnImage ==
    \A p1, p2 \in DOMAIN image.pixels :
        image.pixels[p1] <= image.pixels[p2]
            => QuantizedAt(p1[1], p1[2]) <= QuantizedAt(p2[1], p2[2])

(* C6 as stated: for ascending thresholds and every palette, the quantized  *)
(* value is a non-decreasing function of the gray value.                    *)
C6_Monotone_AsStated ==
    (pc = "encode" /\ Ascending(thresholds)) => QuantizerMonotoneOnImage

(* C6 amended: for ascending thresholds and every palette with              *)
(* p0 <= p1 <= p2 <= p3, the quantized value is a non-decreasing function   *)
(* of the gray value.                                                       *)
C6_Monotone ==
    (pc = "encode" /\ Ascending(thresholds) /\ NonDecreasing(palette))
        => QuantizerMonotoneOnImage

\* an image with pixels in all four buckets, quantized to four different values
C6_Witness ==
    /\ pc = "encode"
    /\ Ascending(thresholds)
    /\ NonDecreasing(palette)
    /\ image.size = <<8, 8>>
    /\ Cardinality({palette_values[r][c] : r \in 1..8, c \in 1..8}) = 4

\* both output files hold all of their bytes
OutputsProduced ==
    /\ out_file = [created |-> TRUE, data |-> written_tiles(tile_set, Len(tile_set))]
    /\ idx_file = [created |-> TRUE, data |-> indices]

(* C7: when there are more than 255 unique tiles (256 and more included),   *)
(* a run that meets no I/O error prints the warning, is not aborted, and    *)
(* produces both output files.                                              *)
C7_WarningNotFatal ==
    (pc = "done" /\ HasReduced /\ Len(tile_set) > MAX_GB_TILES /\ reported # "IOError")
        => (warned /\ raised = "none" /\ exit_code = 0 /\ OutputsProduced)

\* the run ended by sys.exit(1) or by an exception main() does not catch
TerminatedAbnormally ==
    pc = "done" /\ (reported = "ImageError" \/ raised # "none")

(* C8: no run has terminated abnormally after a byte of the tile-set file   *)
(* or of the indices file was written.                                      *)
C8_NoOutputBeforeFailure ==
    ~(TerminatedAbnormally /\ (Len(out_file.data) > 0 \/ Len(idx_file.data) > 0))

(* C9: an image whose width or height is zero or no multiple of 8 ends the  *)
(* run with the ImageError main() reports, exit status non-zero, no tile    *)
(* encoded and no output file created; an image whose width and height are  *)
(* positive multiples of 8 raises no dimension error.                       *)
C9_DimensionError ==
    (pc = "done" /\ source.status = "ok") =>
        IF PositiveMultiplesOf8(source.image.size)
        THEN reported # "ImageError" /\ raised \notin {"AssertionError", "IndexError"}
        ELSE /\ reported = "ImageError"
             /\ raised = "none"
             /\ exit_code # 0
             /\ encoded = << >>
             /\ ~out_file.created
             /\ ~idx_file.created

\* the block of the image that the tile at 0-based position n must be
RasterBlock(n) ==
    LET tilesPerRow == image.size[1] \div 8
        tileRow == n \div tilesPerRow
        tileCol == n % tilesPerRow
    IN  [r \in 1..8 |->
            [c \in 1..8 |->
                grayscale_to_palette(image.pixels[<<8 * tileCol + (c - 1), 8 * tileRow + (r - 1)>>],
                                     palette, thresholds)]]

(* C10: for a W x H image, W and H positive multiples of 8, there are       *)
(* (H/8) x (W/8) tiles in row-major order: the tile at position n is the    *)
(* encoding of the block at tileRow = n div (W/8), tileCol = n mod (W/8),   *)
(* whose cell (r, c) is the quantized pixel (8 tileCol + c, 8 tileRow + r); *)
(* indices has one entry per tile position.                                 *)
C10_RasterOrder ==
    (HasEncoded /\ PositiveMultiplesOf8(image.size)) =>
        LET count == (image.size[2] \div 8) * (image.size[1] \div 8)
        IN  /\ Len(encoded) = count
            /\ \A n \in 0..(count - 1) : encoded[n + 1] = encode_tile(RasterBlock(n))
            /\ HasReduced => Len(indices) = count

\* a 16x16 image whose tile at (row 0, col 1) differs from that at (row 1, col 0)
C10_Witness ==
    /\ HasEncoded
    /\ image.size = <<16, 16>>
    /\ Len(encoded) = 4
    /\ encoded[2] # encoded[3]
    /\ encoded[2] = encode_tile(RasterBlock(1))

====
